---- MODULE Spec2Model ----
(***************************************************************************)
(* Comment-ingestion pipeline of the YouTube sentiment-analysis backend:   *)
(*   AnalysisService.analyze_youtube_video   (services/analysis_service)   *)
(*   YouTubeCommentService                   (services/youtube_comment_..) *)
(*   SentimentService._normalize_label / analyze                           *)
(*   VideoRepository / AnalysisRepository / CommentRepository              *)
(* Storage is PostgreSQL: videos (unique youtube_video_id), analyses,      *)
(* comments (primary key id, sentiment of type sentiment_enum).            *)
(*                                                                         *)
(* Spec       : concurrent ingestion runs over shared storage.  A run's    *)
(*              actions are its segments between storage awaits.           *)
(* SpecFetch  : one call of fetch_all_comments, page request by page       *)
(*              request, against an arbitrary provider.                    *)
(* SpecBulk   : CommentRepository.bulk_create applied twice to a batch.    *)
(***************************************************************************)
EXTENDS Integers, Sequences, FiniteSets, TLC

NULL == "NULL"
\* a nullable integer column: <<>> is SQL NULL, <<n>> holds n
NullInt == <<>>
Some(n) == <<n>>
Val(x) == x[1]
\* comment IDs are paths: <<k>> is the k-th top-level comment, <<k, j>> its
\* j-th reply; <<>> is "no parent"
NoParent == <<>>
NoError == <<>>

\* ------------------------------------------------------------------ bounds
MaxBatch == 2         \* comments one run's fetch hands to classification
PageMax == 2          \* items the provider puts in one page
MaxTable == 2         \* entries of an index-to-label table
MaxTexts == 2         \* texts handed to one analyze_batch call
MaxLen == 6           \* characters of a text handed to clean_text

\* two ingestion runs, sequential or overlapping at any storage operation
Runs == {1, 2}
\* external comment IDs the runs meet: one top-level comment and a reply to it
CommentIds == {<<1>>, <<1, 1>>}
\* the requesting principal of each run (get_user_id_from_token)
UserOf(r) == IF r = 1 THEN "u1" ELSE "u2"
\* comment texts the provider serves: "!!!" is one that clean_text empties.
\* Top-level comments and replies draw from two of the three each.
Texts == {"Bagus!!", "jelek", "!!!"}
TopTexts == {"Bagus!!", "jelek"}
ReplyTexts == {"Bagus!!", "!!!"}

TopIds == {c \in CommentIds : Len(c) = 1}
ReplyIdsOf(p) == {c \in CommentIds : Len(c) = 2 /\ <<c[1]>> = p}

\* ------------------------------------------------------------- sequences
RECURSIVE SeqsUpTo(_, _)
SeqsUpTo(S, n) ==
    IF n = 0 THEN {<<>>}
    ELSE LET shorter == SeqsUpTo(S, n - 1)
         IN  shorter \cup {Append(s, x) : s \in {t \in shorter : Len(t) = n - 1}, x \in S}

\* "pat in msg" on texts held as sequences of words
Contains(msg, pat) ==
    \E i \in 1..(Len(msg) - Len(pat) + 1) : SubSeq(msg, i, i + Len(pat) - 1) = pat


\* ------------------------------------------------------ label reconciler
SentimentEnum == {"positive", "negative", "neutral"}

\* str.lower() on the labels the classifiers in use emit
Lower(s) ==
    CASE s = "POSITIVE" -> "positive"
      [] s = "Negatif"  -> "negatif"
      [] s = "NEUTRAL"  -> "neutral"
      [] s = "LABEL_0"  -> "label_0"
      [] s = "LABEL_1"  -> "label_1"
      [] s = "LABEL_2"  -> "label_2"
      [] s = "LABEL_X"  -> "label_x"
      [] s = "Mixed"    -> "mixed"
      [] OTHER          -> s

\* label.startswith("label_") and int(label.split("_")[-1]); "raise" where
\* int() raises ValueError
LabelIndex(l) ==
    CASE l = "label_0" -> [kind |-> "int", n |-> 0]
      [] l = "label_1" -> [kind |-> "int", n |-> 1]
      [] l = "label_2" -> [kind |-> "int", n |-> 2]
      [] l = "label_x" -> [kind |-> "raise", n |-> 0]
      [] OTHER         -> [kind |-> "none", n |-> 0]

\* id2label is [kind |-> "none"] (no table), [kind |-> "dict", keys, at] with
\* keys "str" or "int" and at a function on the indices, or
\* [kind |-> "list", items].  A dict is looked up by str(idx), which finds an
\* entry only under string keys.
MappedLabel(idx, id2label) ==
    IF id2label.kind = "none" THEN NULL
    ELSE IF id2label.kind = "dict"
         THEN (IF id2label.keys = "str" /\ idx \in DOMAIN id2label.at
               THEN Lower(id2label.at[idx]) ELSE NULL)
         ELSE (IF 0 <= idx /\ idx < Len(id2label.items)
               THEN Lower(id2label.items[idx + 1]) ELSE NULL)

\* (mutant) the swap applied on the direct-synonym path only
NormalizeLabelSwapDirectOnly(label, id2label, swap) ==
    LET l == Lower(label)
        idx == LabelIndex(l)
        mapped == IF idx.kind = "int" THEN MappedLabel(idx.n, id2label) ELSE NULL
    IN  IF l \in {"positive", "positif"} THEN (IF swap THEN "negative" ELSE "positive")
        ELSE IF l \in {"negative", "negatif"} THEN (IF swap THEN "positive" ELSE "negative")
        ELSE IF l \in {"neutral", "netral"} THEN "neutral"
        ELSE IF mapped # NULL /\ mapped # ""
             THEN (IF mapped \in {"positive", "positif"} THEN "positive"
                   ELSE IF mapped \in {"negative", "negatif"} THEN "negative"
                   ELSE IF mapped \in {"neutral", "netral"} THEN "neutral"
                   ELSE mapped)
        ELSE l

\* SentimentService._normalize_label
NormalizeLabel(label, id2label, swap) ==
    LET l == Lower(label)
        idx == LabelIndex(l)
        mapped == IF idx.kind = "int" THEN MappedLabel(idx.n, id2label) ELSE NULL
    IN  IF l \in {"positive", "positif"} THEN (IF swap THEN "negative" ELSE "positive")
        ELSE IF l \in {"negative", "negatif"} THEN (IF swap THEN "positive" ELSE "negative")
        ELSE IF l \in {"neutral", "netral"} THEN "neutral"
        ELSE IF mapped # NULL /\ mapped # ""
             THEN (IF mapped \in {"positive", "positif"}
                       THEN (IF swap THEN "negative" ELSE "positive")
                   ELSE IF mapped \in {"negative", "negatif"}
                       THEN (IF swap THEN "positive" ELSE "negative")
                   ELSE IF mapped \in {"neutral", "netral"} THEN "neutral"
                   ELSE mapped)
        ELSE l

\* settings.SENTIMENT_SWAP_POS_NEG as deployed (its default)
SENTIMENT_SWAP_POS_NEG == FALSE
\* the deployed model's config.id2label, a list
ModelId2Label == [kind |-> "list", items |-> <<"negative", "neutral", "positive">>]

\* raw labels a pipeline can emit, and the values a model config can hold in
\* id2label ("" is an empty name)
RawLabels == {"POSITIVE", "positif", "Negatif", "NEUTRAL", "netral",
              "LABEL_0", "LABEL_1", "LABEL_2", "LABEL_X", "Mixed"}
TableValues == {"POSITIVE", "Negatif", "NEUTRAL", "Mixed", ""}
\* getattr(self.model.config, "id2label", None): absent, a dict keyed by the
\* indices as strings or as integers, or a list
LabelTables ==
    {[kind |-> "none"]}
    \cup {[kind |-> "dict", keys |-> k, at |-> f] :
             k \in {"str", "int"}, f \in [0..(MaxTable - 1) -> TableValues]}
    \cup {[kind |-> "list", items |-> items] : items \in SeqsUpTo(TableValues, MaxTable)}

RAISE == "RAISE"
\* what classifier(text)[0]["label"] can be for a text, or RAISE when the
\* pipeline call throws
ClassifierOutputs == {"POSITIVE", "Negatif", "netral", "Mixed", RAISE}

\* str.strip() on the texts handed to the classifier service
Strip(text) ==
    CASE text = " "    -> ""
      [] text = " \n " -> ""
      [] OTHER         -> text

\* what classifier(text)[0] is: a label with a score (in hundredths); the
\* label RAISE stands for a pipeline call that throws
PipelineOutputs == [label : ClassifierOutputs, score : {0, 99}]

\* (mutant) analyze without the blank short-circuit
AnalyzeTextNoShortCircuit(text, out, swap) ==
    IF out.label = RAISE
    THEN [raised |-> TRUE, sentiment |-> NULL, confidence |-> 0, classifier_calls |-> <<text>>]
    ELSE [raised |-> FALSE,
          sentiment |-> NormalizeLabel(out.label, ModelId2Label, swap),
          confidence |-> out.score,
          classifier_calls |-> <<text>>]

\* SentimentService.analyze(text), out being what self.classifier(text)[0] is
\* when it is called: the result, whether the call raised, and the texts the
\* classifier was called with
AnalyzeText(text, out, swap) ==
    IF text = "" \/ Strip(text) = ""
    THEN [raised |-> FALSE, sentiment |-> "neutral", confidence |-> 0,
          classifier_calls |-> <<>>]
    ELSE IF out.label = RAISE
    THEN [raised |-> TRUE, sentiment |-> NULL, confidence |-> 0, classifier_calls |-> <<text>>]
    ELSE [raised |-> FALSE,
          sentiment |-> NormalizeLabel(out.label, ModelId2Label, swap),
          confidence |-> out.score,
          classifier_calls |-> <<text>>]

\* text if text and text.strip() else " "
SafeText(text) == IF text # "" /\ Strip(text) # "" THEN text ELSE " "

\* the texts analyze_batch is called with, and what the pipeline answers for
\* one text
BatchTexts == {"", " \n ", "bagus", "jelek"}
BatchOutputs == {[label |-> "POSITIVE", score |-> 99], [label |-> "Negatif", score |-> 0],
                 [label |-> RAISE, score |-> 0]}

\* one entry of the list analyze_batch returns
BatchEntry(r, swap) ==
    [sentiment |-> NormalizeLabel(r.label, ModelId2Label, swap), confidence |-> r.score]

\* (mutant) blank texts left out of the batch instead of being replaced
AnalyzeBatchSkipBlank(texts, pipeline, swap) ==
    LET safe_texts == SelectSeq(texts, LAMBDA t : t # "" /\ Strip(t) # "")
        results == [i \in 1..Len(safe_texts) |-> pipeline[safe_texts[i]]]
    IN  IF \E i \in 1..Len(results) : results[i].label = RAISE
        THEN [msg |-> <<"RuntimeError:", "pipeline">>, raised |-> TRUE, value |-> <<>>]
        ELSE [msg |-> <<>>, raised |-> FALSE,
              value |-> [i \in 1..Len(results) |-> BatchEntry(results[i], swap)]]

\* SentimentService.analyze_batch(texts); pipeline[t] is what the classifier
\* answers for text t, the list call answering item by item in input order
AnalyzeBatch(texts, pipeline, swap) ==
    IF texts = <<>> THEN [msg |-> <<>>, raised |-> FALSE, value |-> <<>>]
    ELSE LET safe_texts == [i \in 1..Len(texts) |-> SafeText(texts[i])]
             results == [i \in 1..Len(safe_texts) |-> pipeline[safe_texts[i]]]
         IN  IF \E i \in 1..Len(results) : results[i].label = RAISE
             THEN [msg |-> <<"RuntimeError:", "pipeline">>, raised |-> TRUE, value |-> <<>>]
             ELSE [msg |-> <<>>, raised |-> FALSE,
                   value |-> [i \in 1..Len(results) |-> BatchEntry(results[i], swap)]]

\* result["sentiment"] of analyze(clean) under the deployed settings, for a
\* classifier that answers rawLabel.  clean is the normalised text ("" when
\* nothing is left).
Analyze(clean, rawLabel) ==
    AnalyzeText(clean, [label |-> rawLabel, score |-> 0], SENTIMENT_SWAP_POS_NEG).sentiment

\* ------------------------------------------------------------- provider
Statuses == {400, 403, 404, 500}
StatusStr(n) ==
    CASE n = 400 -> "400" [] n = 403 -> "403" [] n = 404 -> "404" [] n = 500 -> "500"

\* a failed request: googleapiclient HttpError (status, and whether its text
\* carries "commentDisabled") or any other exception
HttpErrors ==
    {[type |-> "HttpError", status |-> s,
      text |-> <<"HttpError", StatusStr(s)>> \o (IF m THEN <<"commentDisabled">> ELSE <<>>)]
        : s \in Statuses, m \in BOOLEAN}
OtherErrors == {[type |-> "Exception", status |-> 0, text |-> <<"timed", "out">>]}
RequestErrors == HttpErrors \cup OtherErrors

MsgCommentsDisabled == <<"Video", "ini", "menonaktifkan", "komentar">>
MsgAccessDenied == <<"Akses", "ke", "komentar", "ditolak">>
MsgInvalidVideo == <<"Video", "ID", "tidak", "valid">>
MsgApiError(status) == <<"YouTube", "API", "error:", StatusStr(status)>>
MsgNoComments ==
    <<"Video", "ini", "tidak", "memiliki", "komentar", "yang", "dapat", "dianalisis">>
FailedToFetch(msg) == <<"Failed", "to", "fetch", "comments:">> \o msg


\* The safety limits of youtube_comment_service, scaled down together: the
\* source has MAX_PAGES = 100, maxResults = 100 and MAX_COMMENTS = 10000, so
\* that MAX_PAGES pages of the requested size hold exactly MAX_COMMENTS items.
MAX_PAGES == 2
MaxResults == 1
MAX_COMMENTS == 2

\* one provider item, by what the parsing of it meets
\* ("malformed": no snippet, blank text or no id)
ItemKinds == {"valid", "malformed", "like_null", "like_unparsable"}
NoToken == "None"
Tokens == {NoToken, "CDIQAA"}
\* response of a page request that succeeds: response["items"] and
\* response.get("nextPageToken")
Pages == [items : SeqsUpTo(ItemKinds, PageMax), token : Tokens]
\* the pages of a provider that keeps to the page size asked for and whose
\* items pass every check of the item loop, some with a text such as
\* "<b></b>", "onload=" or "\0": not blank after strip(), but made of nothing
\* that the sanitizer keeps ("markup_only")
MarkupPages == [items : SeqsUpTo({"valid", "markup_only"}, MaxResults), token : Tokens]
\* the text of a valid item after sanitize_comment
ItemText == "Bagus!!"
\* sanitize_comment(comment_text) for an item that passed the checks for
\* snippet, text and id
SanitizedText(item) == IF item = "markup_only" THEN "" ELSE ItemText
\* int("abc"): ValueError, which the item handler does not catch
ValueErrorExc == [type |-> "Exception", status |-> 0,
                  text |-> <<"invalid", "literal", "for", "int()">>]

\* ------------------------------------------------- fetch_all_comments
Return(v) == [raised |-> FALSE, value |-> v, msg |-> <<>>]
Raise(m) == [raised |-> TRUE, value |-> <<>>, msg |-> m]

\* the dict appended by _get_top_level_comments for one valid item
TopComment(id, text) ==
    [comment_id |-> id, text |-> text, parent_id |-> NoParent, is_top_level |-> TRUE]
\* (mutant) a reply dict that does not carry the parent
ReplyWithoutParent(id, text, parent) ==
    [comment_id |-> id, text |-> text, parent_id |-> NoParent, is_top_level |-> FALSE]
\* the dict appended by _get_replies(parent_id) for one valid item
Reply(id, text, parent) ==
    [comment_id |-> id, text |-> text, parent_id |-> parent, is_top_level |-> FALSE]

\* the handlers without the branch for status 400
TopLevelErrorNo400(e) ==
    IF e.type = "HttpError"
    THEN IF e.status = 403
         THEN (IF Contains(e.text, <<"commentDisabled">>)
               THEN MsgCommentsDisabled ELSE MsgAccessDenied)
         ELSE MsgApiError(e.status)
    ELSE FailedToFetch(e.text)

\* _get_top_level_comments, the handlers of a failed page request: the
\* message of the exception that leaves the method
TopLevelError(e) ==
    LET raised ==
          IF e.type = "HttpError"
          THEN IF e.status = 403
               THEN (IF Contains(e.text, <<"commentDisabled">>)
                     THEN MsgCommentsDisabled ELSE MsgAccessDenied)
               ELSE IF e.status = 400 THEN MsgInvalidVideo
               ELSE MsgApiError(e.status)
          ELSE IF \/ Contains(e.text, <<"commentDisabled">>)
                  \/ Contains(e.text, <<"menonaktifkan">>)
                  \/ Contains(e.text, <<"ditolak">>)
               THEN e.text
               ELSE FailedToFetch(e.text)
    IN  \* the outer handler re-raises the same exception on both branches
        IF Contains(raised, <<"Video", "ini">>) THEN raised ELSE raised

\* the for-loop over response["items"]: the list after the page and whether an
\* exception left the item handler.  An item without snippet, text or id is
\* skipped; int(None) is a TypeError, caught and skipped; int("abc") is a
\* ValueError, which leaves the handler with the items before it appended.
RECURSIVE ParseItems(_, _, _)
ParseItems(comments, items, parent_id) ==
    IF items = <<>> THEN [comments |-> comments, escaped |-> FALSE]
    ELSE LET item == Head(items)
             n == Len(comments) + 1
         IN  IF item = "like_unparsable"
             THEN [comments |-> comments, escaped |-> TRUE]
             ELSE IF item \in {"valid", "markup_only"}
             THEN ParseItems(Append(comments,
                                    IF parent_id = NoParent
                                    THEN TopComment(<<n>>, SanitizedText(item))
                                    ELSE Reply(Append(parent_id, n), SanitizedText(item),
                                               parent_id)),
                             Tail(items), parent_id)
             ELSE ParseItems(comments, Tail(items), parent_id)

\* locals of a retrieval loop at its start
NewLoop == [comments |-> <<>>, next_page_token |-> NoToken, page_count |-> 0]

\* one iteration of "while page_count < MAX_PAGES and len(comments) <
\* MAX_COMMENTS" on a response, up to the next test of the loop condition:
\* the locals after it and how it ends ("continue", "done" for a break or a
\* false loop condition, "escaped" for an exception out of the item loop)
LoopStep(l, response, parent_id) ==
    IF response.items = <<>> THEN [loop |-> l, exit |-> "done"]
    ELSE LET parsed == ParseItems(l.comments, response.items, parent_id)
             appended == [l EXCEPT !.comments = parsed.comments]
             counted == [appended EXCEPT !.next_page_token = response.token,
                                         !.page_count = l.page_count + 1]
         IN  IF parsed.escaped THEN [loop |-> appended, exit |-> "escaped"]
             ELSE IF Len(parsed.comments) >= MAX_COMMENTS
                  THEN [loop |-> appended, exit |-> "done"]
             ELSE IF response.token = NoToken THEN [loop |-> counted, exit |-> "done"]
             ELSE IF counted.page_count < MAX_PAGES /\ Len(counted.comments) < MAX_COMMENTS
                  THEN [loop |-> counted, exit |-> "continue"]
                  ELSE [loop |-> counted, exit |-> "done"]

\* _get_replies when a page request fails or an exception leaves the item
\* loop: break, and the replies collected so far are returned
ReplyLoopFailed(l) == Return(l.comments)

\* the loop body keeping a thread only when it has replies
AppendThreadIfReplies(all_comments, comment, replies) ==
    IF replies.raised \/ replies.value = <<>>
    THEN all_comments
    ELSE Append(all_comments, comment) \o replies.value

\* fetch_all_comments, the loop body for one top-level comment: replies is
\* the outcome of _get_replies for it
AppendThread(all_comments, comment, replies) ==
    IF replies.raised
    THEN Append(all_comments, comment)
    ELSE Append(all_comments, comment) \o replies.value

RECURSIVE CollectThreads(_, _, _)
CollectThreads(all_comments, top_comments, repliesOf) ==
    IF top_comments = <<>> THEN all_comments
    ELSE CollectThreads(AppendThread(all_comments, Head(top_comments), Head(repliesOf)),
                        Tail(top_comments), Tail(repliesOf))

\* fetch_all_comments wrapping every exception, its own messages included
FetchAllCommentsWrapAll(top, repliesOf) ==
    IF top.raised THEN Raise(FailedToFetch(top.msg))
    ELSE IF top.value = <<>> THEN Raise(FailedToFetch(MsgNoComments))
    ELSE Return(CollectThreads(<<>>, top.value, repliesOf))

\* fetch_all_comments: top is the outcome of _get_top_level_comments and
\* repliesOf[i] the outcome of _get_replies for the i-th top-level comment
FetchAllComments(top, repliesOf) ==
    LET inner ==
          IF top.raised THEN top
          ELSE IF top.value = <<>> THEN Raise(MsgNoComments)
          ELSE Return(CollectThreads(<<>>, top.value, repliesOf))
    IN  IF ~inner.raised THEN inner
        ELSE IF Contains(inner.msg, <<"Video", "ini">>) THEN inner
        ELSE Raise(FailedToFetch(inner.msg))


\* -------------------------------------------------------------- storage
\* Video row (videos.youtube_video_id is unique)
VideoRow(youtube_video_id, metadata) ==
    [youtube_video_id |-> youtube_video_id, title |-> metadata.title,
     channel_name |-> metadata.channel_name,
     thumbnail_url |-> metadata.thumbnail_url,
     comment_count |-> metadata.comment_count]

\* (mutant) an Analysis born with its counts already at zero
NewAnalysisZeroCounts(id, user_id, video_id) ==
    [id |-> id, user_id |-> user_id, video_id |-> video_id,
     total_comments |-> Some(0), positive_count |-> Some(0),
     negative_count |-> Some(0), neutral_count |-> Some(0)]

\* Analysis(id, user_id, video_id, created_at): the counts are not set
NewAnalysis(id, user_id, video_id) ==
    [id |-> id, user_id |-> user_id, video_id |-> video_id,
     total_comments |-> NullInt, positive_count |-> NullInt,
     negative_count |-> NullInt, neutral_count |-> NullInt]

\* Comment(id=raw["comment_id"], ..., sentiment=sentiment, ...)
CommentModel(raw, video_id, analysis_id, sentiment) ==
    [id |-> raw.comment_id, video_id |-> video_id, analysis_id |-> analysis_id,
     text |-> raw.text, sentiment |-> sentiment, parent_id |-> raw.parent_id,
     is_top_level |-> raw.is_top_level]

\* ON CONFLICT (id) DO UPDATE: the later writer replaces the row
InsertOnConflictDoUpdate(rows, c) ==
    {x \in rows : x.id # c.id} \cup {c}

\* INSERT ... ON CONFLICT (id) DO NOTHING, for one row of the VALUES list
InsertOnConflictDoNothing(rows, c) ==
    IF \E x \in rows : x.id = c.id THEN rows ELSE rows \cup {c}

RECURSIVE InsertAll(_, _)
InsertAll(rows, batch) ==
    IF batch = <<>> THEN rows
    ELSE InsertAll(InsertOnConflictDoNothing(rows, Head(batch)), Tail(batch))

\* a sentiment column of type text
RowAcceptedAnySentiment(c) == c.text # NULL

\* what the comments table accepts: sentiment is sentiment_enum NOT NULL,
\* text is NOT NULL
RowAccepted(c) == c.sentiment \in SentimentEnum /\ c.text # NULL

\* (mutant) an insert that the table never refuses
BulkCreateUnchecked(rows, batch) == [ok |-> TRUE, rows |-> InsertAll(rows, batch)]

\* CommentRepository.bulk_create: [ok, rows]; one statement, so a rejected
\* value fails the whole insert
BulkCreate(rows, batch) ==
    IF batch = <<>> THEN [ok |-> TRUE, rows |-> rows]
    ELSE IF \E i \in 1..Len(batch) : ~RowAccepted(batch[i])
         THEN [ok |-> FALSE, rows |-> rows]
         ELSE [ok |-> TRUE, rows |-> InsertAll(rows, batch)]

\* sum(1 for c in comment_models if c.sentiment == s)
RECURSIVE CountSentiment(_, _)
CountSentiment(models, s) ==
    IF models = <<>> THEN 0
    ELSE (IF Head(models).sentiment = s THEN 1 ELSE 0) + CountSentiment(Tail(models), s)

\* analysis.total_comments = ..., analysis.neutral_count = ...
WithCounts(a, models) ==
    [a EXCEPT !.total_comments = Some(Len(models)),
              !.positive_count = Some(CountSentiment(models, "positive")),
              !.negative_count = Some(CountSentiment(models, "negative")),
              !.neutral_count = Some(CountSentiment(models, "neutral"))]

\* ---------------------------------------------------------- the request
VideoIds == {"dQw4w9WgXcQ"}
\* A URL is held by its parts: what it starts with, the network location,
\* where an identifier stands ("path": /<id>, "v": /watch?v=<id>, "none"), the
\* identifier, and the number of characters of a trailing query parameter.
Urls ==
    {[prefix |-> "https://", netloc |-> "youtu.be", where |-> "path", id |-> "dQw4w9WgXcQ",
      padding |-> 0],
     [prefix |-> "ftp://", netloc |-> "youtu.be", where |-> "path", id |-> "dQw4w9WgXcQ",
      padding |-> 0],
     [prefix |-> "https://", netloc |-> "evil.example", where |-> "path", id |-> "dQw4w9WgXcQ",
      padding |-> 0],
     [prefix |-> "https://", netloc |-> "www.youtube.com", where |-> "v", id |-> "short",
      padding |-> 0]}
INVALID == "INVALID"

MaxUrlLength == 2048
VideoIdLength == 11
\* [a-zA-Z0-9_-]
IdAlphabet ==
    {"a", "b", "c", "d", "e", "f", "g", "h", "i", "j", "k", "l", "m", "n", "o", "p", "q", "r",
     "s", "t", "u", "v", "w", "x", "y", "z",
     "A", "B", "C", "D", "E", "F", "G", "H", "I", "J", "K", "L", "M", "N", "O", "P", "Q", "R",
     "S", "T", "U", "V", "W", "X", "Y", "Z",
     "0", "1", "2", "3", "4", "5", "6", "7", "8", "9", "_", "-"}
\* the characters of the identifiers met in URLs
IdChars(id) ==
    CASE id = "dQw4w9WgXcQ"  -> <<"d", "Q", "w", "4", "w", "9", "W", "g", "X", "c", "Q">>
      [] id = "a_b-c_d-e_9"  -> <<"a", "_", "b", "-", "c", "_", "d", "-", "e", "_", "9">>
      [] id = "dQw4w9WgXc!"  -> <<"d", "Q", "w", "4", "w", "9", "W", "g", "X", "c", "!">>
      [] id = "dQw4w9WgXcQQ" -> <<"d", "Q", "w", "4", "w", "9", "W", "g", "X", "c", "Q", "Q">>
      [] id = "short"        -> <<"s", "h", "o", "r", "t">>
      [] id = "watch"        -> <<"w", "a", "t", "c", "h">>
      [] OTHER               -> <<>>
KnownDomains == {"youtube.com", "www.youtube.com", "youtu.be", "www.youtu.be"}
\* parsed.netloc.lower()
LowerNetloc(netloc) ==
    CASE netloc = "YouTu.Be" -> "youtu.be"
      [] OTHER               -> netloc
\* len(url)
UrlLength(url) ==
    Len(url.prefix) + Len(url.netloc)
    + (IF url.where = "path" THEN 1 + Len(IdChars(url.id))
       ELSE IF url.where = "v" THEN 9 + Len(IdChars(url.id))
       ELSE 0)
    + url.padding
\* parsed.path.lstrip("/").split("?")[0]
PathId(url) ==
    IF url.where = "path" THEN url.id
    ELSE IF url.where = "v" THEN "watch"
    ELSE ""
\* parse_qs(parsed.query).get("v", [None])[0]; "" for None
QueryId(url) == IF url.where = "v" THEN url.id ELSE ""
\* re.match(r"^[a-zA-Z0-9_-]{11}$", video_id)
MatchesIdPattern(video_id) ==
    /\ Len(IdChars(video_id)) = VideoIdLength
    /\ \A i \in 1..Len(IdChars(video_id)) : IdChars(video_id)[i] \in IdAlphabet

\* (mutant) extract_video_id without the domain check
ExtractVideoIdAnyDomain(url) ==
    IF url.prefix \notin {"http://", "https://"} THEN INVALID
    ELSE IF UrlLength(url) > MaxUrlLength THEN INVALID
    ELSE LET domain == LowerNetloc(url.netloc)
             video_id == IF domain \in {"youtu.be", "www.youtu.be"} THEN PathId(url)
                         ELSE QueryId(url)
         IN  IF video_id = "" THEN INVALID
             ELSE IF Len(IdChars(video_id)) # VideoIdLength THEN INVALID
             ELSE IF ~MatchesIdPattern(video_id) THEN INVALID
             ELSE video_id

\* YouTubeVideoService.extract_video_id: the ID, or INVALID for ValueError
ExtractVideoId(url) ==
    IF url.prefix \notin {"http://", "https://"} THEN INVALID
    ELSE IF UrlLength(url) > MaxUrlLength THEN INVALID
    ELSE LET domain == LowerNetloc(url.netloc)
             video_id == IF domain \in {"youtu.be", "www.youtu.be"} THEN PathId(url)
                         ELSE QueryId(url)
         IN  IF domain \notin KnownDomains THEN INVALID
             ELSE IF video_id = "" THEN INVALID
             ELSE IF Len(IdChars(video_id)) # VideoIdLength THEN INVALID
             ELSE IF ~MatchesIdPattern(video_id) THEN INVALID
             ELSE video_id


\* what fetch_video_detail returns when it succeeds
Metadatas ==
    {[title |-> "A", channel_name |-> "chan", thumbnail_url |-> "a.jpg", comment_count |-> 0],
     [title |-> "A", channel_name |-> "chan", thumbnail_url |-> "b.jpg", comment_count |-> 0]}

\* PreprocessingService.clean_text on the texts the provider serves
CleanText(text) ==
    CASE text = "Bagus!!" -> "bagus"
      [] text = "jelek"   -> "jelek"
      [] OTHER            -> ""
CleanTexts == {CleanText(t) : t \in Texts} \ {""}


\* ------------------------------------------------- clean_text, step by step
\* a text is a sequence of characters; the classes the patterns distinguish
Letters == {"h", "p", "t", "w", "H", "P", "T", "W"}
Whitespace == {" ", "\n"}
Punctuation == {"!", "?", ".", ","}
\* a character of the blocks U+1F300-U+1F6FF and U+1F1E0-U+1F1FF
Emoji == {"U+1F600"}

\* text.lower()
LowerChar(c) ==
    CASE c = "H" -> "h"
      [] c = "P" -> "p"
      [] c = "T" -> "t"
      [] c = "W" -> "w"
      [] OTHER   -> c
LowerText(text) == [i \in 1..Len(text) |-> LowerChar(text[i])]

StartsWith(text, prefix) ==
    Len(text) >= Len(prefix) /\ SubSeq(text, 1, Len(prefix)) = prefix
\* length of the longest prefix of text whose characters are all in class
\* (inside = TRUE) or all outside it (inside = FALSE)
RECURSIVE RunLength(_, _, _)
RunLength(text, class, inside) ==
    IF text = <<>> \/ (Head(text) \in class) # inside THEN 0
    ELSE 1 + RunLength(Tail(text), class, inside)
DropFirst(text, n) == SubSeq(text, n + 1, Len(text))
Alnum == Letters \cup {"1"}
WordChars == Alnum \cup {"_"}

\* re.sub(r"http\S+|www\S+", "", text)
RECURSIVE RemoveUrl(_)
RemoveUrl(text) ==
    IF text = <<>> THEN <<>>
    ELSE LET lead == IF StartsWith(text, <<"h", "t", "t", "p">>) THEN 4
                     ELSE IF StartsWith(text, <<"w", "w", "w">>) THEN 3
                     ELSE 0
             run == RunLength(DropFirst(text, lead), Whitespace, FALSE)
         IN  IF lead > 0 /\ run > 0
             THEN RemoveUrl(DropFirst(text, lead + run))
             ELSE <<Head(text)>> \o RemoveUrl(Tail(text))

\* re.sub(sigil + r"\w+", "", text)
RECURSIVE RemoveTagged(_, _)
RemoveTagged(text, sigil) ==
    IF text = <<>> THEN <<>>
    ELSE LET run == RunLength(Tail(text), WordChars, TRUE)
         IN  IF Head(text) = sigil /\ run > 0
             THEN RemoveTagged(DropFirst(text, 1 + run), sigil)
             ELSE <<Head(text)>> \o RemoveTagged(Tail(text), sigil)
RemoveMentionHashtag(text) == RemoveTagged(RemoveTagged(text, "@"), "#")

RemoveEmoji(text) == SelectSeq(text, LAMBDA c : c \notin Emoji)

\* re.sub(pattern with \1 repeated at least `least` more times, keep copies)
RECURSIVE CollapseRuns(_, _, _, _)
CollapseRuns(text, class, least, keep) ==
    IF text = <<>> THEN <<>>
    ELSE LET c == Head(text)
             run == RunLength(text, {c}, TRUE)
         IN  IF c \in class /\ run >= 1 + least
             THEN [i \in 1..keep |-> c] \o CollapseRuns(DropFirst(text, run), class, least, keep)
             ELSE <<c>> \o CollapseRuns(Tail(text), class, least, keep)
\* ([A-Za-z0-9])\1{2,} -> \1\1, then ([!?.,])\1+ -> \1
NormalizeRepeatedChars(text) ==
    CollapseRuns(CollapseRuns(text, Alnum, 2, 2), Punctuation, 1, 1)

\* re.sub(r"[^a-zA-Z\s]", " ", text)
RemoveNonAlphabet(text) ==
    [i \in 1..Len(text) |->
        IF text[i] \in Letters \cup Whitespace THEN text[i] ELSE " "]

\* text.split(): the maximal runs of non-whitespace characters, in order
RECURSIVE Split(_)
Split(text) ==
    IF text = <<>> THEN <<>>
    ELSE IF Head(text) \in Whitespace THEN Split(Tail(text))
    ELSE LET run == RunLength(text, Whitespace, FALSE)
         IN  <<SubSeq(text, 1, run)>> \o Split(DropFirst(text, run))
\* " ".join(words)
RECURSIVE Join(_)
Join(words) ==
    IF words = <<>> THEN <<>>
    ELSE IF Len(words) = 1 THEN words[1]
    ELSE words[1] \o <<" ">> \o Join(Tail(words))
\* slang_dict.get(word, word) for every word; slang_dict is a function on
\* the slang words
NormalizeSlang(text, slang_dict) ==
    LET words == Split(text)
    IN  Join([i \in 1..Len(words) |->
                 IF words[i] \in DOMAIN slang_dict THEN slang_dict[words[i]] ELSE words[i]])

\* re.sub(r"\s+", " ", text).strip()
CollapseSpaces(text) == Join(Split(text))

\* PreprocessingService.clean_text with self.slang_dict = slang_dict
clean_text(text, slang_dict) ==
    CollapseSpaces(
      NormalizeSlang(
        RemoveNonAlphabet(
          NormalizeRepeatedChars(
            RemoveEmoji(
              RemoveMentionHashtag(
                RemoveUrl(
                  LowerText(text)))))),
        slang_dict))

\* the dictionaries app/slang.txt can hold: none, one entry, two entries, and
\* an entry whose formal side is not lower-case letters (the line "h=P1")
NoSlang == [w \in {} |-> <<>>]
SlangDicts ==
    {NoSlang,
     [w \in {<<"p">>} |-> <<"t", "p">>],
     [w \in {<<"t">>, <<"p">>} |-> IF w = <<"t">> THEN <<"p">> ELSE <<"h">>],
     [w \in {<<"h">>} |-> <<"P", "1">>]}

\* ---------------------------------------------------------------- state
VARIABLES
    videos,          \* rows of table videos
    analyses,        \* rows of table analyses
    comments,        \* rows of table comments
    classifier,      \* the sentiment pipeline: normalised text -> raw label or RAISE
    pc,              \* per run: where analyze_youtube_video stands
    request,         \* per run: the call's youtube_url (<<>> before it), video_id, user_id
    video_found,     \* per run: did get_by_youtube_id return a row
    provider_gave,   \* per run (history): what the provider's last answer to the run came to
    raw_comments,    \* per run: result of fetch_all_comments
    comment_models,  \* per run: the Comment objects built by the run
    error,           \* per run: message of the exception that ended the run
    \* one call of fetch_all_comments (SpecFetch)
    fpc,             \* where the call stands: top_loop, reply_loop, returned, raised
    loop,            \* locals of the retrieval loop in progress
    top_comments,    \* what _get_top_level_comments returned
    replies_of,      \* what _get_replies returned, per top-level comment so far
    fetch_result,    \* outcome of fetch_all_comments
    provider,        \* history: what the provider did to this call
    \* repeated calls of bulk_create (SpecBulk)
    bulk_calls,      \* history: outcome of each call made so far
    \* one call of a function of the services
    args,            \* the arguments of the call
    result           \* <<>> until the call returns, then <<what it returned>>

run_vars == <<videos, analyses, comments, classifier, pc, request, video_found,
              provider_gave, raw_comments, comment_models, error>>
fetch_vars == <<fpc, loop, top_comments, replies_of, fetch_result, provider>>
call_vars == <<args, result>>
vars == <<run_vars, fetch_vars, bulk_calls, call_vars>>

storage == <<videos, analyses, comments>>

MsgInvalidUrl == <<"ValueError:", "invalid", "URL">>
MsgMetadata == <<"ValueError:", "video", "details">>
MsgIntegrity == <<"IntegrityError:", "videos_youtube_video_id_key">>
MsgDataError == <<"DBAPIError:", "invalid", "input", "value", "for", "enum", "sentiment_enum">>

\* outcomes of _get_top_level_comments and _get_replies as one run sees them
TopOutcomes ==
    {Raise(TopLevelError(e)) : e \in RequestErrors}
    \cup {Return(s) : s \in SeqsUpTo({TopComment(c, t) : c \in TopIds, t \in TopTexts}, MaxBatch)}
ReplyOutcomes(parent) ==
    {Return(s) : s \in SeqsUpTo({Reply(c, t, parent) : c \in ReplyIdsOf(parent), t \in ReplyTexts},
                                MaxBatch - 1)}
\* the outcomes of _get_replies for each of the top-level comments in turn,
\* with at most budget replies in all
RECURSIVE RepliesWithin(_, _)
RepliesWithin(tops, budget) ==
    IF tops = <<>> THEN {<<>>}
    ELSE UNION {{<<h>> \o t : t \in RepliesWithin(Tail(tops), budget - Len(h.value))} :
                   h \in {x \in ReplyOutcomes(Head(tops).comment_id) : Len(x.value) <= budget}}
RepliesFor(top) ==
    IF top.raised THEN {<<>>}
    ELSE RepliesWithin(top.value, MaxBatch - Len(top.value))
\* what the provider's top-level listing came to
ProviderGave(top) ==
    IF top.raised THEN "request_failed"
    ELSE IF top.value = <<>> THEN "no_usable_items"
    ELSE "comments"
\* the outcomes of fetch_all_comments with at most MaxBatch comments, each with
\* what the provider's listing came to
FetchOutcomes ==
    UNION {{[gave |-> ProviderGave(top), result |-> FetchAllComments(top, rep)] :
               rep \in RepliesFor(top)} : top \in TopOutcomes}

RECURSIVE BuildModels(_, _, _, _)
\* the classification loop: a comment whose analysis raises is skipped
BuildModels(raws, cls, video_id, analysis_id) ==
    IF raws = <<>> THEN <<>>
    ELSE LET raw == Head(raws)
             clean == CleanText(raw.text)
             rest == BuildModels(Tail(raws), cls, video_id, analysis_id)
         IN  IF clean # "" /\ cls[clean] = RAISE THEN rest
             ELSE <<CommentModel(raw, video_id, analysis_id,
                                 Analyze(clean, IF clean = "" THEN "" ELSE cls[clean]))>>
                  \o rest

TypeOK ==
    /\ pc \in [Runs -> {"created", "get_video", "resolve_video", "create_analysis",
                        "fetching", "classifying", "persisting", "update_video",
                        "update_counts", "done", "failed"}]
    /\ classifier \in [CleanTexts -> ClassifierOutputs]

\* no fetch_all_comments call traced: the call's variables at their start
\* provider.latest: the retrieval loop last entered, whether it is over, the
\* page requests it issued, whether every one of them was answered with a
\* non-empty page and a continuation token, whether a page held more items
\* than requested, and whether the loop ended by raising.
\* provider.failed_parents: the top-level comments whose reply loop broke off;
\* provider.refused_parents: those of them for which a page request failed
\* token, empty, valid: the continuation token of the last response, whether
\* it had no items, and the items of all responses so far that have snippet,
\* text, id and a usable like count
NoRequestYet == [kind |-> "top", over |-> FALSE, requests |-> 0, always_paging |-> TRUE,
                 oversized |-> FALSE, raised |-> FALSE,
                 token |-> NoToken, empty |-> FALSE, valid |-> 0]
\* provider.texts: "plain" for a provider serving Pages, "markup" for one
\* serving MarkupPages
FetchInitWith(texts) ==
    /\ fpc = "top_loop"
    /\ loop = NewLoop
    /\ top_comments = <<>>
    /\ replies_of = <<>>
    /\ fetch_result = Return(<<>>)
    /\ provider = [failure |-> {}, failed_parents |-> {}, refused_parents |-> {},
                   latest |-> NoRequestYet, texts |-> texts]
FetchInit == FetchInitWith("plain")

\* no function call traced
NoCall == args = [fn |-> "none"] /\ result = <<>>

\* storage empty and no run started, for a classifier
RunInit(cls) ==
    /\ videos = {}
    /\ analyses = {}
    /\ comments = {}
    /\ classifier = cls
    /\ pc = [r \in Runs |-> "created"]
    /\ request = [r \in Runs |-> [youtube_url |-> <<>>, video_id |-> NULL, user_id |-> NULL]]
    /\ video_found = [r \in Runs |-> FALSE]
    /\ provider_gave = [r \in Runs |-> NULL]
    /\ raw_comments = [r \in Runs |-> <<>>]
    /\ comment_models = [r \in Runs |-> <<>>]
    /\ error = [r \in Runs |-> NoError]

Init ==
    /\ \E cls \in [CleanTexts -> ClassifierOutputs] : RunInit(cls)
    /\ FetchInit
    /\ bulk_calls = <<>>
    /\ NoCall

\* an exception leaves analyze_youtube_video
Fail(r, msg) ==
    /\ pc' = [pc EXCEPT ![r] = "failed"]
    /\ error' = [error EXCEPT ![r] = msg]

\* (mutant) the Analysis row written before the URL is validated
StartRecordsAnalysisFirst(r) ==
    /\ pc[r] = "created"
    /\ UNCHANGED <<fetch_vars, bulk_calls, call_vars>>
    /\ \E url \in Urls :
         LET video_id == ExtractVideoId(url)
         IN  /\ analyses' = analyses \cup {NewAnalysis(r, UserOf(r), video_id)}
             /\ IF video_id = INVALID
                THEN /\ Fail(r, MsgInvalidUrl)
                     /\ request' = [request EXCEPT ![r].youtube_url = <<url>>]
                ELSE /\ pc' = [pc EXCEPT ![r] = "get_video"]
                     /\ request' = [request EXCEPT ![r] = [youtube_url |-> <<url>>,
                                                           video_id |-> video_id,
                                                           user_id |-> UserOf(r)]]
                     /\ UNCHANGED error
    /\ UNCHANGED <<videos, comments, classifier, video_found, provider_gave, raw_comments,
                   comment_models>>

\* 1. extract_video_id(youtube_url)
Start(r) ==
    /\ pc[r] = "created"
    /\ UNCHANGED <<fetch_vars, bulk_calls, call_vars>>
    /\ \E url \in Urls :
         LET video_id == ExtractVideoId(url)
         IN  IF video_id = INVALID
             THEN /\ Fail(r, MsgInvalidUrl)
                  /\ request' = [request EXCEPT ![r].youtube_url = <<url>>]
             ELSE /\ pc' = [pc EXCEPT ![r] = "get_video"]
                  /\ request' = [request EXCEPT ![r] = [youtube_url |-> <<url>>,
                                                        video_id |-> video_id,
                                                        user_id |-> UserOf(r)]]
                  /\ UNCHANGED error
    /\ UNCHANGED <<storage, classifier, video_found, provider_gave, raw_comments, comment_models>>

\* 2. video = await VideoRepository.get_by_youtube_id(db, video_id)
GetVideo(r) ==
    /\ pc[r] = "get_video"
    /\ UNCHANGED <<fetch_vars, bulk_calls, call_vars>>
    /\ video_found' = [video_found EXCEPT
                         ![r] = \E v \in videos : v.youtube_video_id = request[r].video_id]
    /\ pc' = [pc EXCEPT ![r] = "resolve_video"]
    /\ UNCHANGED <<storage, classifier, request, provider_gave, raw_comments, comment_models, error>>

\* VideoRepository.create: db.add(video); commit
VideoCreate(rows, video) ==
    IF \E v \in rows : v.youtube_video_id = video.youtube_video_id
    THEN [ok |-> FALSE, rows |-> rows]
    ELSE [ok |-> TRUE, rows |-> rows \cup {video}]

\* the else branch: refresh thumbnail and counters of the existing row
VideoRefresh(rows, youtube_video_id, metadata) ==
    {IF v.youtube_video_id = youtube_video_id
     THEN [v EXCEPT !.thumbnail_url = metadata.thumbnail_url,
                    !.comment_count = metadata.comment_count]
     ELSE v : v \in rows}

\* 2. if not video: fetch metadata and create; else: best-effort refresh whose
\* failure is swallowed (except Exception: pass).  metadata is <<>> when
\* fetch_video_detail raised and <<m>> when it returned m.
ResolveOutcomeRefreshRaises(found, rows, video_id, metadata) ==
    IF metadata = <<>>
    THEN [msg |-> MsgMetadata, rows |-> rows]
    ELSE IF found
         THEN [msg |-> NoError, rows |-> VideoRefresh(rows, video_id, metadata[1])]
         ELSE LET res == VideoCreate(rows, VideoRow(video_id, metadata[1]))
              IN  [msg |-> IF res.ok THEN NoError ELSE MsgIntegrity, rows |-> res.rows]
ResolveOutcome(found, rows, video_id, metadata) ==
    IF found
    THEN IF metadata = <<>>
         THEN [msg |-> NoError, rows |-> rows]
         ELSE [msg |-> NoError, rows |-> VideoRefresh(rows, video_id, metadata[1])]
    ELSE IF metadata = <<>>
         THEN [msg |-> MsgMetadata, rows |-> rows]
         ELSE LET res == VideoCreate(rows, VideoRow(video_id, metadata[1]))
              IN  [msg |-> IF res.ok THEN NoError ELSE MsgIntegrity, rows |-> res.rows]

ResolveVideo(r) ==
    /\ pc[r] = "resolve_video"
    /\ UNCHANGED <<fetch_vars, bulk_calls, call_vars>>
    /\ \E metadata \in {<<>>} \cup {<<m>> : m \in Metadatas} :
         LET o == ResolveOutcome(video_found[r], videos, request[r].video_id, metadata)
         IN  /\ videos' = o.rows
             /\ IF o.msg = NoError
                THEN /\ pc' = [pc EXCEPT ![r] = "create_analysis"]
                     /\ UNCHANGED error
                ELSE Fail(r, o.msg)
             /\ provider_gave' = IF metadata = <<>>
                                 THEN [provider_gave EXCEPT ![r] = "metadata_failed"]
                                 ELSE provider_gave
    /\ video_found' = [video_found EXCEPT ![r] = FALSE]  \* not read again
    /\ UNCHANGED <<analyses, comments, classifier, request, raw_comments, comment_models>>

\* 3. analysis = await AnalysisRepository.create(db, Analysis(id=uuid4(), ...))
CreateAnalysis(r) ==
    /\ pc[r] = "create_analysis"
    /\ UNCHANGED <<fetch_vars, bulk_calls, call_vars>>
    /\ analyses' = analyses \cup {NewAnalysis(r, request[r].user_id, request[r].video_id)}
    /\ pc' = [pc EXCEPT ![r] = "fetching"]
    /\ UNCHANGED <<videos, comments, classifier, request, video_found, provider_gave,
                   raw_comments, comment_models, error>>

\* 4. raw_comments = fetch_all_comments(youtube_url); empty is an error
FetchComments(r) ==
    /\ pc[r] = "fetching"
    /\ UNCHANGED <<fetch_vars, bulk_calls, call_vars>>
    /\ \E o \in FetchOutcomes :
         LET res == o.result
         IN  /\ provider_gave' = [provider_gave EXCEPT ![r] = o.gave]
             /\ IF res.raised
                THEN /\ Fail(r, res.msg)
                     /\ UNCHANGED raw_comments
                ELSE IF res.value = <<>>
                     THEN /\ Fail(r, MsgNoComments)
                          /\ UNCHANGED raw_comments
                     ELSE /\ raw_comments' = [raw_comments EXCEPT ![r] = res.value]
                          /\ pc' = [pc EXCEPT ![r] = "classifying"]
                          /\ UNCHANGED error
    /\ UNCHANGED <<storage, classifier, request, video_found, comment_models>>

\* 5. clean_text + analyze for every raw comment
Classify(r) ==
    /\ pc[r] = "classifying"
    /\ UNCHANGED <<fetch_vars, bulk_calls, call_vars>>
    /\ comment_models' = [comment_models EXCEPT
                            ![r] = BuildModels(raw_comments[r], classifier,
                                               request[r].video_id, r)]
    /\ pc' = [pc EXCEPT ![r] = "persisting"]
    /\ UNCHANGED <<storage, classifier, request, video_found, provider_gave, raw_comments,
                   error>>

\* 6. await CommentRepository.bulk_create(db, comment_models)
Persist(r) ==
    /\ pc[r] = "persisting"
    /\ UNCHANGED <<fetch_vars, bulk_calls, call_vars>>
    /\ LET res == BulkCreate(comments, comment_models[r])
       IN  IF res.ok
           THEN /\ comments' = res.rows
                /\ pc' = [pc EXCEPT ![r] = "update_video"]
                /\ UNCHANGED <<error, comment_models>>
           ELSE /\ Fail(r, MsgDataError)
                /\ comment_models' = [comment_models EXCEPT ![r] = <<>>]  \* frame gone
                /\ UNCHANGED comments
    /\ raw_comments' = [raw_comments EXCEPT ![r] = <<>>]  \* not read again
    /\ UNCHANGED <<videos, analyses, classifier, request, video_found, provider_gave>>

\* video.comment_count = len(comment_models); commit
UpdateVideoCount(r) ==
    /\ pc[r] = "update_video"
    /\ UNCHANGED <<fetch_vars, bulk_calls, call_vars>>
    /\ videos' = {IF v.youtube_video_id = request[r].video_id
                  THEN [v EXCEPT !.comment_count = Len(comment_models[r])]
                  ELSE v : v \in videos}
    /\ pc' = [pc EXCEPT ![r] = "update_counts"]
    /\ UNCHANGED <<analyses, comments, classifier, request, video_found, provider_gave,
                   raw_comments, comment_models, error>>

\* 7. the counts of the run's Analysis; commit
UpdateCounts(r) ==
    /\ pc[r] = "update_counts"
    /\ UNCHANGED <<fetch_vars, bulk_calls, call_vars>>
    /\ analyses' = {IF a.id = r THEN WithCounts(a, comment_models[r]) ELSE a : a \in analyses}
    /\ comment_models' = [comment_models EXCEPT ![r] = <<>>]  \* the call returns
    /\ pc' = [pc EXCEPT ![r] = "done"]
    /\ UNCHANGED <<videos, comments, classifier, request, video_found, provider_gave,
                   raw_comments, error>>

Next ==
    \E r \in Runs :
        \/ Start(r)
        \/ GetVideo(r)
        \/ ResolveVideo(r)
        \/ CreateAnalysis(r)
        \/ FetchComments(r)
        \/ Classify(r)
        \/ Persist(r)
        \/ UpdateVideoCount(r)
        \/ UpdateCounts(r)

Spec == Init /\ [][Next]_vars


\* ============================================ one call of fetch_all_comments
\* the counters of the loop in progress, before its next request
Latest(kind) ==
    IF provider.latest.over THEN [NoRequestYet EXCEPT !.kind = kind] ELSE provider.latest
\* the provider answered a request of the loop in progress
Answered(kind, response) ==
    [provider EXCEPT
        !.latest = [Latest(kind) EXCEPT
            !.requests = @ + 1,
            !.always_paging = @ /\ response.items # <<>> /\ response.token # NoToken,
            !.oversized = @ \/ Len(response.items) > MaxResults,
            !.token = response.token,
            !.empty = (response.items = <<>>),
            !.valid = @ + Cardinality({i \in 1..Len(response.items) :
                                          response.items[i] \in {"valid", "markup_only"}})]]
\* the provider failed a request of the loop in progress
Refused(kind) ==
    [provider EXCEPT
        !.latest = [Latest(kind) EXCEPT !.requests = @ + 1, !.always_paging = FALSE]]
\* the loop in progress is over
LoopOver(p, raised) ==
    [p EXCEPT !.latest = [@ EXCEPT !.over = TRUE, !.raised = raised]]

\* an exception leaves _get_top_level_comments and then fetch_all_comments
TopRaises(e, p) ==
    /\ fetch_result' = FetchAllComments(Raise(TopLevelError(e)), <<>>)
    /\ fpc' = "raised"
    /\ provider' = LoopOver(p, TRUE)
    /\ UNCHANGED <<loop, top_comments, replies_of>>

\* _get_top_level_comments returns; fetch_all_comments goes on to the replies
\* of the first top-level comment, or raises when there is none
TopReturns(l, p) ==
    /\ top_comments' = l.comments
    /\ provider' = LoopOver(p, FALSE)
    /\ IF l.comments = <<>>
       THEN /\ fetch_result' = FetchAllComments(Return(<<>>), <<>>)
            /\ fpc' = "raised"
            /\ UNCHANGED <<loop, replies_of>>
       ELSE /\ fpc' = "reply_loop"
            /\ loop' = NewLoop
            /\ UNCHANGED <<replies_of, fetch_result>>

\* the responses the provider of this call can give to a page request
PagesServed == IF provider.texts = "markup" THEN MarkupPages ELSE Pages

\* a page request of _get_top_level_comments that succeeds
TopPage ==
    /\ fpc = "top_loop"
    /\ \E response \in PagesServed :
         LET step == LoopStep(loop, response, NoParent)
             p == Answered("top", response)
         IN  CASE step.exit = "continue" ->
                    /\ loop' = step.loop
                    /\ provider' = p
                    /\ UNCHANGED <<fpc, top_comments, replies_of, fetch_result>>
               [] step.exit = "escaped" -> TopRaises(ValueErrorExc, p)
               [] step.exit = "done" -> TopReturns(step.loop, p)
    /\ UNCHANGED <<run_vars, bulk_calls, call_vars>>

\* a page request of _get_top_level_comments that fails
TopFailed ==
    /\ fpc = "top_loop"
    /\ \E e \in RequestErrors : TopRaises(e, [Refused("top") EXCEPT !.failure = {e}])
    /\ UNCHANGED <<run_vars, bulk_calls, call_vars>>

\* _get_replies returns for the top-level comment in turn; fetch_all_comments
\* goes on to the next one or returns
ReplyReturns(replies, p) ==
    LET done == Append(replies_of, replies)
    IN  /\ replies_of' = done
        /\ provider' = LoopOver(p, FALSE)
        /\ loop' = NewLoop
        /\ IF Len(done) = Len(top_comments)
           THEN /\ fetch_result' = FetchAllComments(Return(top_comments), done)
                /\ fpc' = "returned"
           ELSE UNCHANGED <<fetch_result, fpc>>
        /\ UNCHANGED top_comments

\* the top-level comment whose replies are being fetched
Parent == top_comments[Len(replies_of) + 1]

\* a page request of _get_replies that succeeds
ReplyPage ==
    /\ fpc = "reply_loop"
    /\ \E response \in PagesServed :
         LET step == LoopStep(loop, response, Parent.comment_id)
             p == Answered("reply", response)
         IN  CASE step.exit = "continue" ->
                    /\ loop' = step.loop
                    /\ provider' = p
                    /\ UNCHANGED <<fpc, top_comments, replies_of, fetch_result>>
               [] step.exit = "escaped" ->
                    ReplyReturns(ReplyLoopFailed(step.loop),
                                 [p EXCEPT !.failed_parents = @ \cup {Len(replies_of) + 1}])
               [] step.exit = "done" -> ReplyReturns(Return(step.loop.comments), p)
    /\ UNCHANGED <<run_vars, bulk_calls, call_vars>>

\* a page request of _get_replies that fails
ReplyFailed ==
    /\ fpc = "reply_loop"
    /\ \E e \in RequestErrors :
         ReplyReturns(ReplyLoopFailed(loop),
                      [Refused("reply") EXCEPT !.failed_parents = @ \cup {Len(replies_of) + 1},
                                               !.refused_parents = @ \cup {Len(replies_of) + 1}])
    /\ UNCHANGED <<run_vars, bulk_calls, call_vars>>

InitFetch ==
    /\ RunInit([t \in CleanTexts |-> "POSITIVE"])
    /\ \E texts \in {"plain", "markup"} : FetchInitWith(texts)
    /\ bulk_calls = <<>>
    /\ NoCall

NextFetch == TopPage \/ TopFailed \/ ReplyPage \/ ReplyFailed

SpecFetch == InitFetch /\ [][NextFetch]_vars

\* ================================== bulk_create called again with its batch
\* Comment objects a run can hand to bulk_create: the sentiment is a canonical
\* tag or a label the reconciler passed through
BulkSentiments == {"positive", "neutral", "mixed"}
BulkRows ==
    {CommentModel(raw, "dQw4w9WgXcQ", a, sentiment) :
        raw \in {TopComment(<<1>>, "jelek"), Reply(<<1, 1>>, "jelek", <<1>>)},
        a \in Runs, sentiment \in BulkSentiments}
\* what the comments table can hold: accepted rows, one per id
PriorStorages ==
    {rows \in SUBSET {c \in BulkRows : RowAccepted(c)} :
        \A x, y \in rows : x.id = y.id => x = y}

InitBulk ==
    /\ videos = {}
    /\ analyses = {}
    /\ comments \in PriorStorages
    /\ classifier = [t \in CleanTexts |-> "POSITIVE"]
    /\ pc = [r \in Runs |-> "created"]
    /\ request = [r \in Runs |-> [youtube_url |-> <<>>, video_id |-> NULL, user_id |-> NULL]]
    /\ video_found = [r \in Runs |-> FALSE]
    /\ provider_gave = [r \in Runs |-> NULL]
    /\ raw_comments = [r \in Runs |-> <<>>]
    /\ \E batch \in SeqsUpTo(BulkRows, MaxBatch) :
          comment_models = [r \in Runs |-> IF r = 1 THEN batch ELSE <<>>]
    /\ error = [r \in Runs |-> NoError]
    /\ FetchInit
    /\ bulk_calls = <<>>
    /\ NoCall

\* await CommentRepository.bulk_create(db, comments), once more
BulkCreateCall ==
    /\ Len(bulk_calls) < 2
    /\ LET res == BulkCreate(comments, comment_models[1])
       IN  /\ comments' = res.rows
           /\ bulk_calls' = Append(bulk_calls, res)
    /\ UNCHANGED <<videos, analyses, classifier, pc, request, video_found, provider_gave,
                   raw_comments, comment_models, error, fetch_vars, call_vars>>

NextBulk == BulkCreateCall

SpecBulk == InitBulk /\ [][NextBulk]_vars


\* ======================================== one call of _normalize_label
\* every other part of the system at rest
Idle ==
    /\ RunInit([t \in CleanTexts |-> "POSITIVE"])
    /\ FetchInit
    /\ bulk_calls = <<>>

InitLabel ==
    /\ Idle
    /\ args \in [fn : {"_normalize_label"}, label : RawLabels, id2label : LabelTables,
                swap : BOOLEAN]
    /\ result = <<>>

NormalizeLabelCall ==
    /\ args.fn = "_normalize_label"
    /\ result = <<>>
    /\ result' = <<NormalizeLabel(args.label, args.id2label, args.swap)>>
    /\ UNCHANGED <<run_vars, fetch_vars, bulk_calls, args>>

SpecLabel == InitLabel /\ [][NormalizeLabelCall]_vars


\* ================= classification: runs, and single calls of the service
InitAnalyze ==
    /\ Idle
    /\ args \in [fn : {"analyze"}, text : {"", " ", " \n ", "bagus"}, out : PipelineOutputs, swap : BOOLEAN]
    /\ result = <<>>

AnalyzeCall ==
    /\ args.fn = "analyze"
    /\ result = <<>>
    /\ result' = <<AnalyzeText(args.text, args.out, args.swap)>>
    /\ UNCHANGED <<run_vars, fetch_vars, bulk_calls, args>>

InitBatch ==
    /\ Idle
    /\ args \in [fn : {"analyze_batch"}, texts : SeqsUpTo(BatchTexts, MaxTexts),
                pipeline : [{SafeText(t) : t \in BatchTexts} -> BatchOutputs], swap : BOOLEAN]
    /\ result = <<>>

AnalyzeBatchCall ==
    /\ args.fn = "analyze_batch"
    /\ result = <<>>
    /\ result' = <<AnalyzeBatch(args.texts, args.pipeline, args.swap)>>
    /\ UNCHANGED <<run_vars, fetch_vars, bulk_calls, args>>

\* the behaviours of SpecClassify are the ingestion runs of Spec, the single
\* calls of analyze and the single calls of analyze_batch
SpecClassify ==
    /\ Init \/ InitAnalyze \/ InitBatch
    /\ [][\/ args.fn = "none" /\ Next
          \/ AnalyzeCall
          \/ AnalyzeBatchCall]_vars


\* ============================================== clean_text, called twice
InitClean ==
    /\ Idle
    /\ args \in [fn : {"clean_text"}, text : SeqsUpTo({"h", "t", "p", " ", "@"}, MaxLen),
                slang_dict : SlangDicts]
    /\ result = <<>>

\* clean_text(x)
CleanTextCall ==
    /\ args.fn = "clean_text"
    /\ result = <<>>
    /\ result' = <<clean_text(args.text, args.slang_dict)>>
    /\ UNCHANGED <<run_vars, fetch_vars, bulk_calls, args>>

\* clean_text applied to what the first call returned
CleanTextAgain ==
    /\ args.fn = "clean_text"
    /\ Len(result) = 1
    /\ result' = Append(result, clean_text(result[1], args.slang_dict))
    /\ UNCHANGED <<run_vars, fetch_vars, bulk_calls, args>>

SpecClean == InitClean /\ [][CleanTextCall \/ CleanTextAgain]_vars


\* ========================================== one call of extract_video_id
InitUrl ==
    /\ Idle
    /\ args \in
         [fn : {"extract_video_id"},
          url : [prefix : {"http://", "https://", "HTTP://", "ftp://", ""},
                 netloc : KnownDomains \cup {"YouTu.Be", "m.youtube.com", "evil.example",
                                             "youtu.be:443"},
                 where : {"path", "v", "none"},
                 id : {"dQw4w9WgXcQ", "a_b-c_d-e_9", "dQw4w9WgXc!", "dQw4w9WgXcQQ", "short", ""},
                 padding : {0, 2020, 2021}]]
    /\ result = <<>>

ExtractVideoIdCall ==
    /\ args.fn = "extract_video_id"
    /\ result = <<>>
    /\ result' = <<ExtractVideoId(args.url)>>
    /\ UNCHANGED <<run_vars, fetch_vars, bulk_calls, args>>

SpecUrl == InitUrl /\ [][ExtractVideoIdCall]_vars


\* ================================================================ claims
Populated(a) == a.total_comments # NullInt
RowsOf(a) == {c \in comments : c.analysis_id = a.id}
AnalysisOf(r) == {a \in analyses : a.id = r}

\* C1: every Analysis whose counts are populated has
\* total_comments = positive_count + negative_count + neutral_count, whatever
\* labels the classifier returned (a label the reconciler passes through is
\* refused by the comments table, so such a run never populates its counts).
C1_TotalIsSumOfClasses ==
    \A a \in analyses :
        Populated(a) =>
            Val(a.total_comments) =
                Val(a.positive_count) + Val(a.negative_count) + Val(a.neutral_count)

\* C1 witness: the classifier emits an unrecognised label for some text, one
\* run was stopped by it at the insert, and another run populated counts of
\* two comments.
C1_Witness ==
    /\ \E t \in CleanTexts : classifier[t] = "Mixed"
    /\ \E r \in Runs : error[r] = MsgDataError
    /\ \E a \in analyses : Populated(a) /\ Val(a.total_comments) = 2

\* C2 (as claimed): for every populated Analysis, total_comments is the number
\* of Comment rows stored with that Analysis's ID.
C2_TotalEqualsStoredRows ==
    \A a \in analyses :
        Populated(a) => Val(a.total_comments) = Cardinality(RowsOf(a))

\* C3 (as claimed): bulk_create is idempotent.  Whatever the batch and the rows
\* stored before, two calls with the same batch both complete without raising,
\* and the second leaves the stored rows, and their number, as the first did.
C3_BulkCreateIdempotent ==
    Len(bulk_calls) = 2 =>
        /\ bulk_calls[1].ok
        /\ bulk_calls[2].ok
        /\ bulk_calls[2].rows = bulk_calls[1].rows
        /\ Cardinality(bulk_calls[2].rows) = Cardinality(bulk_calls[1].rows)

\* the part of C3 that the code keeps: a second call never changes what the
\* first call left, and raises only if the first did
SecondCallChangesNothing ==
    Len(bulk_calls) = 2 =>
        /\ bulk_calls[2].rows = bulk_calls[1].rows
        /\ bulk_calls[2].ok = bulk_calls[1].ok

\* C4: first writer wins.  No step of any run removes or changes a stored
\* Comment row, and an insert whose rows are all acceptable never fails,
\* whether or not their IDs are already stored.
C4_FirstWriterWins ==
    [][/\ \A c \in comments : c \in comments'
       /\ \A r \in Runs :
            (pc[r] = "persisting" /\ pc'[r] = "failed")
                => \E i \in 1..Len(comment_models[r]) : ~RowAccepted(comment_models[r][i])
      ]_vars

\* C4 witness: a row written under Analysis 1 is stored, and run 2 has been
\* through the insert with a Comment of the same ID whose text, sentiment or
\* Analysis differ; the stored row is still the first writer's.
C4_Witness ==
    /\ pc[2] = "update_video"
    /\ \E c \in comments, i \in 1..Len(comment_models[2]) :
         /\ c.analysis_id = 1
         /\ comment_models[2][i].id = c.id
         /\ comment_models[2][i].text # c.text
         /\ comment_models[2][i].sentiment # c.sentiment

\* C5 (as claimed): no run fails because of another run on the same video; in
\* particular none is ended by the unique constraint on youtube_video_id.
C5_NoRunFailsOnTheOther ==
    \A r \in Runs : error[r] # MsgIntegrity

\* C6 (as claimed): a retrieval loop whose every request was answered with a
\* non-empty page and a continuation token ends after at most MAX_PAGES
\* requests and returns without raising.
C6_CeilingWithoutError ==
    (provider.latest.over /\ provider.latest.always_paging) =>
        /\ provider.latest.requests <= MAX_PAGES
        /\ ~provider.latest.raised

\* the part of C6 that the code keeps: no loop issues more than MAX_PAGES page
\* requests, and _get_replies never raises
RequestCeiling ==
    /\ provider.latest.requests <= MAX_PAGES
    /\ provider.latest.kind = "reply" => ~provider.latest.raised

\* C7 (as claimed): no list returned by a retrieval loop holds more than
\* MAX_COMMENTS items, whatever the provider serves and however large its pages.
C7_ListWithinCeiling ==
    /\ Len(top_comments) <= MAX_COMMENTS
    /\ \A i \in 1..Len(replies_of) : Len(replies_of[i].value) <= MAX_COMMENTS

\* the part of C7 that the code keeps: a loop whose pages held no more items
\* than it requested returns at most MAX_COMMENTS items
CeilingWithPagesAsRequested ==
    (provider.latest.over /\ ~provider.latest.oversized /\ ~provider.latest.raised) =>
        IF provider.latest.kind = "top"
        THEN Len(top_comments) <= MAX_COMMENTS
        ELSE Len(replies_of[Len(replies_of)].value) <= MAX_COMMENTS

\* C8: reply-fetch failures are isolated.  Once the top-level comments are in,
\* fetch_all_comments does not raise; its result holds every top-level comment,
\* and each one whose reply fetch did not fail is directly followed by all the
\* replies fetched for it, whichever other reply fetches failed.
C8_ReplyFailureIsolated ==
    /\ provider.failed_parents # {} => fpc # "raised"
    /\ fpc = "returned" =>
          /\ ~fetch_result.raised
          /\ \A i \in 1..Len(top_comments) :
                \E pos \in 1..Len(fetch_result.value) :
                    /\ fetch_result.value[pos] = top_comments[i]
                    /\ i \notin provider.failed_parents =>
                          SubSeq(fetch_result.value, pos + 1,
                                 pos + Len(replies_of[i].value)) = replies_of[i].value

\* C8 witness: the call returned, the reply fetch failed for exactly one of
\* several top-level comments, and another one has replies.
C8_Witness ==
    /\ fpc = "returned"
    /\ Cardinality(provider.failed_parents) = 1
    /\ Len(top_comments) >= 2
    /\ \E i \in 1..Len(top_comments) :
          i \notin provider.failed_parents /\ replies_of[i].value # <<>>

\* the cause of a failed request, in the taxonomy surfaced to the orchestrator
Cause(e) ==
    IF e.status = 403
    THEN (IF Contains(e.text, <<"commentDisabled">>)
          THEN [cause |-> "CommentsDisabled", status |-> 0]
          ELSE [cause |-> "AccessDenied", status |-> 0])
    ELSE IF e.status = 400 THEN [cause |-> "InvalidVideo", status |-> 0]
    ELSE [cause |-> "UpstreamError", status |-> e.status]

\* what the orchestrator can tell from the message of the exception it gets
ReadCause(msg) ==
    IF msg = MsgNoComments THEN [cause |-> "NoComments", status |-> 0]
    ELSE IF Contains(msg, <<"menonaktifkan">>) THEN [cause |-> "CommentsDisabled", status |-> 0]
    ELSE IF Contains(msg, <<"ditolak">>) THEN [cause |-> "AccessDenied", status |-> 0]
    ELSE IF Contains(msg, <<"Video", "ID", "tidak", "valid">>)
         THEN [cause |-> "InvalidVideo", status |-> 0]
    ELSE IF \E st \in Statuses : Contains(msg, MsgApiError(st))
         THEN [cause |-> "UpstreamError",
               status |-> CHOOSE st \in Statuses : Contains(msg, MsgApiError(st))]
    ELSE [cause |-> "Unclassified", status |-> 0]

\* C9: a failed top-level page request, on any page, makes fetch_all_comments
\* raise and return nothing, with a message from which the cause is read back:
\* CommentsDisabled, AccessDenied, InvalidVideo, or UpstreamError with the
\* provider's status; a listing without usable comments reads as NoComments.
C9_TopLevelFailureClassified ==
    /\ \A e \in provider.failure :
          /\ fpc = "raised"
          /\ fetch_result.raised
          /\ fetch_result.value = <<>>
          /\ e.type = "HttpError" => ReadCause(fetch_result.msg) = Cause(e)
    /\ (fpc = "raised" /\ ~provider.latest.raised) =>
          ReadCause(fetch_result.msg).cause = "NoComments"

\* C9 witness: a later page's request failed with status 400 after an earlier
\* page had delivered a comment.
C9_Witness ==
    /\ fpc = "raised"
    /\ \E e \in provider.failure : e.type = "HttpError" /\ e.status = 400
    /\ loop.page_count >= 1
    /\ loop.comments # <<>>

\* C10: a run whose provider yields no usable top-level comment fails with the
\* no-content message, which no failed request produces; it writes no Comment
\* row and its Analysis row exists with all counts NULL.
C10_NoContent ==
    \A r \in Runs :
        /\ provider_gave[r] = "no_usable_items" =>
              /\ pc[r] = "failed"
              /\ error[r] = MsgNoComments
              /\ RowsOf([id |-> r]) = {}
              /\ AnalysisOf(r) = {NewAnalysis(r, request[r].user_id, request[r].video_id)}
        /\ provider_gave[r] = "request_failed" =>
              /\ pc[r] = "failed"
              /\ error[r] # MsgNoComments

\* C10 witness: one run ended on no content while the other run completed
\* with stored comments.
C10_Witness ==
    /\ provider_gave[1] = "no_usable_items"
    /\ pc[2] = "done"
    /\ comments # {}


\* the per-comment try block of the classification loop raised for this comment
FailsClassification(raw, cls) ==
    CleanText(raw.text) # "" /\ cls[CleanText(raw.text)] = RAISE

\* C11 (as claimed): when normalization or classification fails for every
\* fetched comment of a run, the classification stage ends the run FAILED, and
\* no run reaches DONE with counts that were computed from no classified
\* comment at all.
C11_AllFailedRunFails ==
    [][\A r \in Runs :
         /\ (/\ pc[r] = "classifying"
             /\ pc'[r] # "classifying"
             /\ \A i \in 1..Len(raw_comments[r]) :
                    FailsClassification(raw_comments[r][i], classifier))
                => (pc'[r] = "failed" /\ \A a \in AnalysisOf(r)' : ~Populated(a))
         /\ (pc[r] = "update_counts" /\ pc'[r] = "done")
                => comment_models[r] # <<>>
      ]_vars


AfterAnalysisCreated == {"fetching", "classifying", "persisting", "update_video",
                         "update_counts"}

\* C12: the Analysis row of a run appears, with null counts, in the step
\* between video resolution and the comment fetch; an Analysis row changes only
\* in the step that takes its own run to DONE, and only from null counts to
\* populated ones, so a populated row is never changed or removed by any run;
\* and a run that fails in any later stage leaves its row stored with null
\* counts.
C12_AnalysisLifecycle ==
    [][\A r \in Runs :
         /\ (AnalysisOf(r) = {} /\ AnalysisOf(r)' # {})
                => /\ pc[r] = "create_analysis" /\ pc'[r] = "fetching"
                   /\ \A a \in AnalysisOf(r)' : ~Populated(a)
         /\ pc[r] \in AfterAnalysisCreated \cup {"done"} => Cardinality(AnalysisOf(r)) = 1
         /\ \A a \in AnalysisOf(r) :
              \/ a \in analyses'
              \/ /\ ~Populated(a)
                 /\ pc[r] = "update_counts" /\ pc'[r] = "done"
                 /\ \E b \in AnalysisOf(r)' : Populated(b)
         /\ (pc[r] \in AfterAnalysisCreated /\ pc'[r] = "failed")
                => /\ AnalysisOf(r)' # {}
                   /\ \A a \in AnalysisOf(r)' : ~Populated(a)
         /\ (pc[r] = "failed" /\ \E a \in AnalysisOf(r) : TRUE)
                => \A a \in AnalysisOf(r) : ~Populated(a) /\ a \in analyses'
      ]_vars

\* C12 witness: run 1 reached DONE and its counts are populated; run 2, on
\* the same video, failed at the insert after its Analysis was created, and
\* that row is stored with null counts.
C12_Witness ==
    /\ pc[1] = "done" /\ \E a \in AnalysisOf(1) : Populated(a)
    /\ pc[2] = "failed" /\ error[2] = MsgDataError
    /\ \E a \in AnalysisOf(2) : ~Populated(a)


\* C13 (as claimed): for every raw label and every table, _normalize_label
\* returns one of the three canonical tags or exactly the lowercased raw label,
\* and in the latter case the value is none of the canonical tags.
C13_CanonicalOrLoweredRaw ==
    result # <<>> =>
        \/ result[1] \in SentimentEnum
        \/ result[1] = Lower(args.label) /\ result[1] \notin SentimentEnum

\* what the code keeps of C13: the result is a canonical tag, the lowercased
\* raw label, or the lowercased table entry of a LABEL_<n>, the last two being
\* none of the canonical tags
CanonicalOrLoweredRawOrEntry ==
    result # <<>> =>
        \/ result[1] \in SentimentEnum
        \/ /\ result[1] \notin SentimentEnum
           /\ \/ result[1] = Lower(args.label)
              \/ /\ LabelIndex(Lower(args.label)).kind = "int"
                 /\ result[1] = MappedLabel(LabelIndex(Lower(args.label)).n, args.id2label)

\* positive and negative exchanged, anything else as it is
Exchange(tag) ==
    IF tag = "positive" THEN "negative"
    ELSE IF tag = "negative" THEN "positive"
    ELSE tag

\* C14: the polarity swap is a uniform last step.  For every raw label and
\* table, what _normalize_label returns under one setting of the flag is what
\* it returns under the other setting with positive and negative exchanged
\* (neutral and passed-through values the same), on the synonym path and on
\* the LABEL_<n> path alike; exchanging once more gives the first result back.
C14_SwapIsUniformLastStep ==
    result # <<>> =>
        LET other == NormalizeLabel(args.label, args.id2label, ~args.swap)
        IN  /\ result[1] = Exchange(other)
            /\ Exchange(result[1]) = other
            /\ (result[1] \in {"positive", "negative"}) = (other \in {"positive", "negative"})

\* C14 witness: with the flag on, LABEL_0 was resolved through a table entry
\* "Negatif" and came back positive.
C14_Witness ==
    /\ result = <<"positive">>
    /\ args.swap
    /\ args.label = "LABEL_0"
    /\ args.id2label.kind = "list"
    /\ args.id2label.items[1] = "Negatif"


\* the Comment the classification loop builds for a raw comment whose
\* normalised text is empty
Blank(c) == CleanText(c.text) = ""

\* C15: analyze on an empty or whitespace-only text returns neutral with
\* confidence 0.0 and does not call the classifier, whatever the swap flag and
\* whatever the classifier would have answered or thrown; and in a run, a
\* fetched comment whose normalised text is empty is kept by the
\* classification loop with sentiment neutral, is no reason for the insert to
\* fail, is stored once the insert is through, and is counted in neutral_count
\* and total_comments.
C15_BlankIsNeutral ==
    [][/\ (args.fn = "analyze" /\ result = <<>> /\ result' # <<>>
            /\ (args.text = "" \/ Strip(args.text) = ""))
              => result'[1] = [raised |-> FALSE, sentiment |-> "neutral", confidence |-> 0,
                               classifier_calls |-> <<>>]
       /\ \A r \in Runs :
            /\ (pc[r] = "classifying" /\ pc'[r] # "classifying")
                 => /\ pc'[r] = "persisting"
                    /\ \A i \in 1..Len(raw_comments[r]) :
                         Blank(raw_comments[r][i])
                            => \E j \in 1..Len(comment_models'[r]) :
                                 /\ comment_models'[r][j].id = raw_comments[r][i].comment_id
                                 /\ comment_models'[r][j].text = raw_comments[r][i].text
                                 /\ comment_models'[r][j].sentiment = "neutral"
            /\ \A j \in 1..Len(comment_models[r]) :
                 Blank(comment_models[r][j])
                    => /\ RowAccepted(comment_models[r][j])
                       /\ (pc[r] = "persisting" /\ pc'[r] = "update_video")
                             => \E c \in comments' : c.id = comment_models[r][j].id
            /\ (pc[r] = "update_counts" /\ pc'[r] = "done")
                 => \A a \in AnalysisOf(r)' :
                      LET blanks == Cardinality({j \in 1..Len(comment_models[r]) :
                                                   Blank(comment_models[r][j])})
                      IN  /\ Populated(a)
                          /\ Val(a.neutral_count) >= blanks
                          /\ Val(a.total_comments) >= blanks
      ]_vars

\* C15 witness: a run whose classifier throws on every text fetched a
\* top-level comment and a reply "!!!"; the reply alone was stored, as neutral,
\* and the run is done with neutral_count = total_comments = 1.
C15_Witness ==
    /\ \A t \in CleanTexts : classifier[t] = RAISE
    /\ pc[1] = "done"
    /\ \E c \in comments : c.text = "!!!" /\ c.sentiment = "neutral" /\ c.analysis_id = 1
    /\ \E a \in AnalysisOf(1) : Val(a.neutral_count) = 1 /\ Val(a.total_comments) = 1

\* sentiment of the classification of a comment text under the classifier of
\* the runs
ClassificationOf(text) ==
    Analyze(CleanText(text), IF CleanText(text) = "" THEN "" ELSE classifier[CleanText(text)])

\* C16: analyze_batch, when it returns, returns a list as long as its input
\* whose i-th entry is the reconciled answer of the classifier for the i-th
\* text, a blank text being sent as a single space; and in a run every Comment
\* the loop built, and every Comment row stored, carries the sentiment of the
\* classification of its own text, whichever other comments were dropped.
C16_OrderCorrelation ==
    /\ (args.fn = "analyze_batch" /\ result # <<>> /\ ~result[1].raised) =>
          /\ Len(result[1].value) = Len(args.texts)
          /\ \A i \in 1..Len(args.texts) :
               LET sent == IF args.texts[i] \in {"", " \n "} THEN " " ELSE args.texts[i]
               IN  /\ result[1].value[i].sentiment =
                         NormalizeLabel(args.pipeline[sent].label, ModelId2Label, args.swap)
                   /\ result[1].value[i].confidence = args.pipeline[sent].score
    /\ args.fn = "none" =>
          /\ \A c \in comments : c.sentiment = ClassificationOf(c.text)
          /\ \A r \in Runs : \A j \in 1..Len(comment_models[r]) :
               comment_models[r][j].sentiment = ClassificationOf(comment_models[r][j].text)

\* C16 witness, the batch: a blank text first and a word second came back as
\* two entries, the classifier's answer for " " first.
C16_Witness ==
    /\ args.fn = "analyze_batch"
    /\ args.texts = <<"", "bagus">>
    /\ args.pipeline[" "].label = "Negatif" /\ args.pipeline["bagus"].label = "POSITIVE"
    /\ result # <<>>
    /\ Len(result[1].value) = 2
    /\ result[1].value[1].sentiment = "negative"


\* C17 (as claimed): clean_text is idempotent, for every text and every slang
\* dictionary: the second application returns what the first returned.
C17_CleanTextIdempotent ==
    (args.fn = "clean_text" /\ Len(result) = 2) => result[2] = result[1]

\* C17 fails without any dictionary as well: the same claimed property on the
\* calls whose dictionary is empty
CleanTextIdempotentNoSlang ==
    (args.fn = "clean_text" /\ args.slang_dict = NoSlang /\ Len(result) = 2)
        => result[2] = result[1]


\* C18: extract_video_id either fails with a validation error or returns an
\* identifier of exactly 11 characters of [A-Za-z0-9_-]; when it succeeds the
\* URL starts with http:// or https://, has at most 2048 characters and its
\* network location is a known YouTube domain; and
\* https://youtu.be/dQw4w9WgXcQ gives dQw4w9WgXcQ.
C18_ExtractVideoId ==
    (args.fn = "extract_video_id" /\ result # <<>>) =>
        LET url == args.url
            id == result[1]
        IN  /\ id # INVALID =>
                 /\ Len(IdChars(id)) = 11
                 /\ \A i \in 1..11 : IdChars(id)[i] \in IdAlphabet
                 /\ url.prefix \in {"http://", "https://"}
                 /\ UrlLength(url) <= 2048
                 /\ LowerNetloc(url.netloc) \in KnownDomains
            /\ url = [prefix |-> "https://", netloc |-> "youtu.be", where |-> "path",
                      id |-> "dQw4w9WgXcQ", padding |-> 0]
                  => id = "dQw4w9WgXcQ"

\* C18 witness: a youtu.be URL of exactly 2048 characters was resolved to the
\* identifier in its path.
C18_Witness ==
    /\ args.fn = "extract_video_id"
    /\ args.url.netloc = "youtu.be" /\ args.url.prefix = "https://"
    /\ UrlLength(args.url) = 2048
    /\ result = <<"dQw4w9WgXcQ">>


\* C19 (as claimed): fetch_all_comments never returns more than MAX_COMMENTS
\* comments, top-level comments and replies together.
C19_TotalWithinCeiling ==
    fpc = "returned" => Len(fetch_result.value) <= MAX_COMMENTS

\* C19 fails also when every single list is within the ceiling: the same
\* claimed property on the calls none of whose retrieval loops returned more
\* than MAX_COMMENTS items
TotalWithinCeilingWhenListsAre ==
    (fpc = "returned" /\ C7_ListWithinCeiling) => Len(fetch_result.value) <= MAX_COMMENTS

\* C20 (as claimed): when a page request of the reply fetch for a top-level
\* comment failed, on the first or on a later page, the result holds that
\* comment and no reply to it, the replies of its earlier pages included.
C20_FailedThreadHasNoReplies ==
    fpc = "returned" =>
        \A i \in provider.refused_parents :
            /\ \E pos \in 1..Len(fetch_result.value) : fetch_result.value[pos] = top_comments[i]
            /\ \A pos \in 1..Len(fetch_result.value) :
                 fetch_result.value[pos].parent_id # top_comments[i].comment_id

\* the part of C20 that the code keeps: the comment itself is in the result,
\* and the replies to it in the result are those of the pages before the
\* failure
FailedThreadKeepsEarlierPages ==
    fpc = "returned" =>
        \A i \in provider.refused_parents :
            /\ \E pos \in 1..Len(fetch_result.value) :
                 /\ fetch_result.value[pos] = top_comments[i]
                 /\ SubSeq(fetch_result.value, pos + 1, pos + Len(replies_of[i].value))
                        = replies_of[i].value
            /\ Len(replies_of[i].value) <= (MAX_PAGES - 1) * PageMax


\* the fetched comments of a run that the classification loop does not drop
Survivors(raws, cls) == SelectSeq(raws, LAMBDA raw : ~FailsClassification(raw, cls))
\* some, but not all, fetched comments of run r fail classification
PartialFailure(r) ==
    /\ \E i \in 1..Len(raw_comments[r]) : FailsClassification(raw_comments[r][i], classifier)
    /\ Survivors(raw_comments[r], classifier) # <<>>
\* the Comment records are the given fetched comments, one for one and in order
SameComments(models, raws) ==
    /\ Len(models) = Len(raws)
    /\ \A k \in 1..Len(raws) :
         models[k].id = raws[k].comment_id /\ models[k].text = raws[k].text

\* C21 (as claimed): when classification fails for some but not all fetched
\* comments of a run, the classification stage hands to persistence exactly the
\* comments that did not fail, in fetch order; the insert does not fail the
\* run, and no later stage fails any run, so the run reaches DONE; and
\* total_comments is the number of the records handed to persistence.
C21_PartialFailureReachesDone ==
    [][\A r \in Runs :
         /\ (PartialFailure(r) /\ pc[r] = "classifying" /\ pc'[r] # "classifying")
              => /\ pc'[r] = "persisting"
                 /\ SameComments(comment_models'[r], Survivors(raw_comments[r], classifier))
         /\ (PartialFailure(r) /\ pc[r] = "persisting" /\ pc'[r] # "persisting")
              => /\ pc'[r] = "update_video"
                 /\ comment_models'[r] = comment_models[r]
         /\ (pc[r] = "update_video" /\ pc'[r] # "update_video")
              => /\ pc'[r] = "update_counts"
                 /\ comment_models'[r] = comment_models[r]
         /\ (pc[r] = "update_counts" /\ pc'[r] # "update_counts")
              => /\ pc'[r] = "done"
                 /\ \A a \in AnalysisOf(r)' :
                      a.total_comments = Some(Len(comment_models[r]))
      ]_vars

\* the part of C21 that the code keeps: the same, except that the insert may
\* fail the run
PartialFailureKeepsSurvivors ==
    [][\A r \in Runs :
         /\ (PartialFailure(r) /\ pc[r] = "classifying" /\ pc'[r] # "classifying")
              => /\ pc'[r] = "persisting"
                 /\ SameComments(comment_models'[r], Survivors(raw_comments[r], classifier))
         /\ (PartialFailure(r) /\ pc[r] = "persisting" /\ pc'[r] \notin {"persisting", "failed"})
              => /\ pc'[r] = "update_video"
                 /\ comment_models'[r] = comment_models[r]
         /\ (pc[r] = "update_video" /\ pc'[r] # "update_video")
              => /\ pc'[r] = "update_counts"
                 /\ comment_models'[r] = comment_models[r]
         /\ (pc[r] = "update_counts" /\ pc'[r] # "update_counts")
              => /\ pc'[r] = "done"
                 /\ \A a \in AnalysisOf(r)' :
                      a.total_comments = Some(Len(comment_models[r]))
      ]_vars

\* the rows of both sets agree, one for one, on id, external ID, title and
\* channel name
SameIdentity(before, after) ==
    /\ Cardinality(before) = Cardinality(after)
    /\ \A v \in before : \E w \in after :
         /\ w.youtube_video_id = v.youtube_video_id
         /\ w.title = v.title
         /\ w.channel_name = v.channel_name

\* C22: when the metadata fetch fails during video resolution, a run that
\* found no Video fails without creating a Video or an Analysis row (and never
\* has an Analysis afterwards); a run that found its Video goes on without an
\* error, the Video rows keep external ID, title and channel name, and the
\* run's next step creates its Analysis and moves on to fetching comments.
C22_VideoResolution ==
    [][\A r \in Runs :
         /\ (pc[r] = "resolve_video" /\ provider_gave'[r] = "metadata_failed")
              => IF video_found[r]
                 THEN /\ pc'[r] = "create_analysis"
                      /\ error'[r] = NoError
                      /\ SameIdentity(videos, videos')
                 ELSE /\ pc'[r] = "failed"
                      /\ videos' = videos
                      /\ analyses' = analyses
         /\ (pc[r] = "failed" /\ error[r] = MsgMetadata) => AnalysisOf(r) = {}
         /\ (pc[r] = "create_analysis" /\ provider_gave[r] = "metadata_failed"
               /\ pc'[r] # pc[r])
              => /\ pc'[r] = "fetching"
                 /\ AnalysisOf(r)' # {}
      ]_vars

\* a run whose metadata refresh failed has created its Analysis and is about
\* to fetch comments
C22_Witness ==
    \E r \in Runs :
       /\ pc[r] = "fetching"
       /\ provider_gave[r] = "metadata_failed"
       /\ AnalysisOf(r) # {}
       /\ \E v \in videos : v.youtube_video_id = request[r].video_id


\* the class a table value names, case-insensitively; NULL when it names none
ClassOf(value) ==
    LET v == Lower(value)
    IN  IF v \in {"positive", "positif"} THEN "positive"
        ELSE IF v \in {"negative", "negatif"} THEN "negative"
        ELSE IF v \in {"neutral", "netral"} THEN "neutral"
        ELSE NULL
\* the table's entries by index, whatever its shape
EntriesOf(id2label) ==
    IF id2label.kind = "dict" THEN id2label.at
    ELSE IF id2label.kind = "list"
         THEN [n \in 0..(Len(id2label.items) - 1) |-> id2label.items[n + 1]]
         ELSE [n \in {} |-> ""]
\* the finished call had a raw label LABEL_<n>, the swap flag off, and a table
\* of one of the given shapes whose entry for n names a class, yet did not
\* return that class
IndexedLabelMissed(shapes) ==
    /\ args.fn = "_normalize_label"
    /\ result # <<>>
    /\ ~args.swap
    /\ LabelIndex(Lower(args.label)).kind = "int"
    /\ LET n == LabelIndex(Lower(args.label)).n
           entries == EntriesOf(args.id2label)
       IN  /\ n \in DOMAIN entries
           /\ ClassOf(entries[n]) # NULL
           /\ [kind |-> args.id2label.kind,
               keys |-> IF args.id2label.kind = "dict" THEN args.id2label.keys ELSE "int"]
                 \in shapes
           /\ result[1] # ClassOf(entries[n])

\* C23 (as claimed): for a raw label LABEL_<n>, the swap flag off, and a table
\* with an entry for index n naming class c, _normalize_label returns c, for a
\* mapping keyed by the index as for a list.
C23_IndexedLabelResolved ==
    ~IndexedLabelMissed({[kind |-> "dict", keys |-> "int"], [kind |-> "dict", keys |-> "str"],
                         [kind |-> "list", keys |-> "int"]})

\* the part of C23 that the code keeps: a list, or a mapping keyed by the
\* decimal string of the index
IndexedLabelResolvedByListOrStringKeys ==
    ~IndexedLabelMissed({[kind |-> "dict", keys |-> "str"], [kind |-> "list", keys |-> "int"]})


\* only the letters a-z and single interior spaces
LettersAndSingleSpaces(text) ==
    /\ \A i \in 1..Len(text) : text[i] \in {LowerChar(c) : c \in Letters} \cup {" "}
    /\ text # <<>> => (text[1] # " " /\ text[Len(text)] # " ")
    /\ \A i \in 1..(Len(text) - 1) : ~(text[i] = " " /\ text[i + 1] = " ")

\* C24 (as claimed): for every input and every slang dictionary, the output of
\* clean_text holds only the letters a-z and single interior spaces, without
\* leading or trailing whitespace.
C24_CleanTextAlphabet ==
    (args.fn = "clean_text" /\ result # <<>>) => LettersAndSingleSpaces(result[1])

\* the part of C24 that the code keeps: the same for the dictionaries whose
\* formal sides are themselves made of the letters a-z and single spaces
CleanTextAlphabetWithPlainSlang ==
    (/\ args.fn = "clean_text"
     /\ result # <<>>
     /\ \A w \in DOMAIN args.slang_dict : LettersAndSingleSpaces(args.slang_dict[w]))
        => LettersAndSingleSpaces(result[1])


\* the retrieval loop that ended last, when it ended without an exception and
\* below both ceilings: the list it returned
EndedBelowCeilings(returned) ==
    /\ provider.latest.over
    /\ provider.latest.requests < MAX_PAGES
    /\ Len(returned) < MAX_COMMENTS
    /\ IF provider.latest.kind = "top"
       THEN ~provider.latest.raised
       ELSE Len(replies_of) \notin provider.failed_parents
\* the list returned by the retrieval loop that ended last
LastReturned ==
    IF provider.latest.kind = "top" THEN top_comments
    ELSE IF replies_of = <<>> THEN <<>> ELSE replies_of[Len(replies_of)].value

\* C25 (as claimed): a retrieval loop that ends without an exception and below
\* both ceilings has followed the continuation tokens up to a response without
\* token, and returns every valid item of the pages it was served; so a
\* response with a token and zero items does not end it.
C25_FollowsTokensToTheEnd ==
    EndedBelowCeilings(LastReturned) =>
        /\ provider.latest.token = NoToken
        /\ Len(LastReturned) = provider.latest.valid

\* the part of C25 that the code keeps: the same for the loops that were never
\* served a page without items
FollowsTokensOverNonEmptyPages ==
    (EndedBelowCeilings(LastReturned) /\ ~provider.latest.empty) =>
        /\ provider.latest.token = NoToken
        /\ Len(LastReturned) = provider.latest.valid


\* C26 (as claimed): no single item makes the top-level fetch fail: when
\* _get_top_level_comments raised, a page request had failed; and a fetch that
\* ended without an exception and below both ceilings returned every
\* well-formed item it was served.
C26_NoItemFailsTopLevelFetch ==
    /\ (provider.latest.kind = "top" /\ provider.latest.raised) => provider.failure # {}
    /\ (provider.latest.kind = "top" /\ EndedBelowCeilings(top_comments)
          /\ ~provider.latest.empty)
         => Len(top_comments) = provider.latest.valid

\* the part of C26 that the code keeps: the one item failure that is not
\* skipped is the ValueError of int() on the like count, and the fetches that
\* end without an exception return every well-formed item
OnlyLikeCountFailsTopLevelFetch ==
    /\ (provider.latest.kind = "top" /\ provider.latest.raised /\ provider.failure = {})
         => fetch_result = FetchAllComments(Raise(TopLevelError(ValueErrorExc)), <<>>)
    /\ (provider.latest.kind = "top" /\ EndedBelowCeilings(top_comments)
          /\ ~provider.latest.empty)
         => Len(top_comments) = provider.latest.valid


\* the position of the last top-level entry before pos; 0 when there is none
ThreadHead(list, pos) ==
    LET heads == {q \in 1..(pos - 1) : list[q].is_top_level}
    IN  IF heads = {} THEN 0 ELSE CHOOSE q \in heads : \A h \in heads : h <= q

\* C27: in the list returned by fetch_all_comments every top-level entry has a
\* null parent_id, and every reply has a non-null parent_id that is the
\* comment_id of the nearest top-level entry before it: each top-level comment
\* is directly followed by its own replies and by no others.
C27_ThreadStructure ==
    fpc = "returned" =>
        LET list == fetch_result.value
        IN  \A pos \in 1..Len(list) :
              IF list[pos].is_top_level
              THEN list[pos].parent_id = NoParent
              ELSE /\ list[pos].parent_id # NoParent
                   /\ ThreadHead(list, pos) # 0
                   /\ list[ThreadHead(list, pos)].comment_id = list[pos].parent_id

\* two top-level comments, each followed by a reply of its own
C27_Witness ==
    /\ fpc = "returned"
    /\ Len(fetch_result.value) >= 4
    /\ \E p, q \in 1..Len(fetch_result.value) :
         /\ p + 1 < q
         /\ q < Len(fetch_result.value)
         /\ fetch_result.value[p].is_top_level
         /\ ~fetch_result.value[p + 1].is_top_level
         /\ fetch_result.value[q].is_top_level
         /\ ~fetch_result.value[q + 1].is_top_level


\* the URL of run r's call fails validation
InvalidUrl(r) ==
    /\ request[r].youtube_url # <<>>
    /\ ExtractVideoId(request[r].youtube_url[1]) = INVALID

\* C28: the first step of a run whose URL fails validation fails the run with
\* the validation error and leaves every Video, Analysis and Comment row as it
\* was; a run failed this way has asked the provider nothing, owns no Analysis
\* and no Comment row, and takes no further step.
C28_InvalidUrlTouchesNothing ==
    [][\A r \in Runs :
         /\ (pc[r] = "created" /\ pc'[r] # "created" /\ InvalidUrl(r)')
              => /\ pc'[r] = "failed"
                 /\ error'[r] = MsgInvalidUrl
                 /\ <<videos, analyses, comments>>' = <<videos, analyses, comments>>
         /\ (pc[r] = "failed" /\ error[r] = MsgInvalidUrl)
              => /\ pc'[r] = "failed"
                 /\ provider_gave[r] = NULL
                 /\ AnalysisOf(r) = {}
                 /\ \A c \in comments : c.analysis_id # r
      ]_vars

\* a run was failed for its URL while the other run's rows are in storage
C28_Witness ==
    \E r \in Runs :
       /\ InvalidUrl(r)
       /\ pc[r] = "failed"
       /\ videos # {} /\ analyses # {} /\ comments # {}


\* C29: in every reachable storage state each Comment row's sentiment is one
\* of positive, negative, neutral; a label the reconciler passed through is
\* never stored, whatever the runs and the classifier's outputs.
C29_StoredSentimentIsCanonical ==
    \A c \in comments : c.sentiment \in {"positive", "negative", "neutral"}

\* rows are stored, and a run that handed over a passed-through label was
\* stopped at the insert
C29_Witness ==
    /\ comments # {}
    /\ \E r \in Runs : pc[r] = "failed" /\ error[r] = MsgDataError
    /\ \E t \in CleanTexts :
         /\ classifier[t] # RAISE
         /\ Analyze(t, classifier[t]) \notin SentimentEnum


\* C30 (as claimed): every comment returned by fetch_all_comments has a
\* non-empty comment_id and a non-empty text, the text being the value after
\* display sanitization.
C30_ReturnedCommentsHaveIdAndText ==
    fpc = "returned" =>
        \A pos \in 1..Len(fetch_result.value) :
            /\ fetch_result.value[pos].comment_id # <<>>
            /\ fetch_result.value[pos].text # ""

\* the part of C30 that the code keeps: every returned comment has a non-empty
\* comment_id, and a non-empty text when the provider serves no text that the
\* sanitizer empties
ReturnedCommentsHaveId ==
    fpc = "returned" =>
        \A pos \in 1..Len(fetch_result.value) :
            /\ fetch_result.value[pos].comment_id # <<>>
            /\ provider.texts = "plain" => fetch_result.value[pos].text # ""

====
